---- MODULE Spec2Model ----
(***************************************************************************)
(* Model of the ArtyPacks converter backend (src/app.py): the /convert     *)
(* route (convert_files) and the brushset repacking helper                 *)
(* (process_brushset).                                                     *)
(*                                                                         *)
(* Paths and file names are sequences of one-character strings, so that    *)
(* lower(), endswith(), startswith(), `in`, splitext() and the f-string    *)
(* that builds the output names are computed and not assumed.              *)
(***************************************************************************)
EXTENDS Integers, Sequences, FiniteSets, TLC

\* ------------------------------------------------------------------ bounds
NumReq == 2          \* concurrent /convert requests
MaxEntries == 3      \* entries of an uploaded archive
InitCredits == 1     \* credits the known licence key starts with

\* --------------------------------------------------------------- constants
MinSize == 1024      \* app.py:260 size floor of the width and of the height

None == "None"

\* ------------------------------------------------------- string operations
UpperChars ==
  <<"A","B","C","D","E","F","G","H","I","J","K","L","M",
    "N","O","P","Q","R","S","T","U","V","W","X","Y","Z">>

LowerChars ==
  <<"a","b","c","d","e","f","g","h","i","j","k","l","m",
    "n","o","p","q","r","s","t","u","v","w","x","y","z">>

Digits == <<"0","1","2","3","4","5","6","7","8","9">>

\* str.lower() on one character
LowerChar(c) ==
  IF \E i \in 1..26 : UpperChars[i] = c
    THEN LowerChars[CHOOSE i \in 1..26 : UpperChars[i] = c]
    ELSE c

\* str.lower()
Lower(s) == [i \in 1..Len(s) |-> LowerChar(s[i])]

\* str.startswith(pre)
StartsWith(s, pre) ==
  /\ Len(pre) <= Len(s)
  /\ SubSeq(s, 1, Len(pre)) = pre

\* str.endswith(suf)
EndsWith(s, suf) ==
  /\ Len(suf) <= Len(s)
  /\ SubSeq(s, Len(s) - Len(suf) + 1, Len(s)) = suf

\* `sub in s`
Contains(s, sub) ==
  \E i \in 1..(Len(s) + 1) :
    /\ i + Len(sub) - 1 <= Len(s)
    /\ SubSeq(s, i, i + Len(sub) - 1) = sub

\* position of the last occurrence of character c in s, 0 when absent
LastIndexOf(s, c) ==
  IF \E i \in 1..Len(s) : s[i] = c
    THEN CHOOSE i \in 1..Len(s) :
           /\ s[i] = c
           /\ \A j \in (i + 1)..Len(s) : s[j] # c
    ELSE 0

\* os.path.basename
Basename(p) == SubSeq(p, LastIndexOf(p, "/") + 1, Len(p))

\* os.path.splitext: the extension starts at the last dot of the last
\* component, unless that dot is preceded only by dots
SplitPoint(p) ==
  LET sep == LastIndexOf(p, "/")
      dot == LastIndexOf(p, ".")
  IN  IF dot > sep + 1 /\ \E j \in (sep + 1)..(dot - 1) : p[j] # "."
        THEN dot
        ELSE Len(p) + 1

SplitextRoot(p) == SubSeq(p, 1, SplitPoint(p) - 1)

\* os.path.join of two components
PathJoin(a, b) == a \o <<"/">> \o b

\* str(n) for a natural number
RECURSIVE IntToStr(_)
IntToStr(n) ==
  IF n < 10 THEN <<Digits[n + 1]>>
            ELSE IntToStr(n \div 10) \o <<Digits[(n % 10) + 1]>>

\* the characters in code point order, as Python compares strings
CodeOrder ==
  <<" ", "-", ".", "/">> \o Digits \o UpperChars \o <<"_">> \o LowerChars

CodePoint(c) == CHOOSE i \in 1..Len(CodeOrder) : CodeOrder[i] = c

\* s < t on Python strings
RECURSIVE LexLess(_, _)
LexLess(s, t) ==
  IF t = <<>> THEN FALSE
  ELSE IF s = <<>> THEN TRUE
  ELSE IF Head(s) = Head(t) THEN LexLess(Tail(s), Tail(t))
  ELSE CodePoint(Head(s)) < CodePoint(Head(t))

\* sorted(names)
RECURSIVE SortNames(_)
SortNames(names) ==
  IF names = <<>> THEN <<>>
  ELSE LET m == CHOOSE i \in 1..Len(names) :
                  \A j \in 1..Len(names) : ~LexLess(names[j], names[i])
       IN  <<names[m]>> \o
           SortNames([k \in 1..(Len(names) - 1) |->
                        IF k < m THEN names[k] ELSE names[k + 1]])

\* werkzeug secure_filename: path separators and white space become "_",
\* characters outside [A-Za-z0-9_.-] are dropped, leading and trailing
\* dots and underscores are stripped
SafeChar(c) ==
  \/ \E i \in 1..26 : UpperChars[i] = c \/ LowerChars[i] = c
  \/ \E i \in 1..10 : Digits[i] = c
  \/ c \in {"_", ".", "-"}

RECURSIVE StripLeft(_)
StripLeft(s) ==
  IF s # <<>> /\ Head(s) \in {".", "_"} THEN StripLeft(Tail(s)) ELSE s

RECURSIVE StripRight(_)
StripRight(s) ==
  IF s # <<>> /\ s[Len(s)] \in {".", "_"}
    THEN StripRight(SubSeq(s, 1, Len(s) - 1))
    ELSE s

\* "_".join(s.split()): runs of white space collapse to one "_", white
\* space at either end disappears
RECURSIVE JoinWords(_, _)
JoinWords(s, started) ==
  IF s = <<>> THEN <<>>
  ELSE IF Head(s) = " "
    THEN IF started /\ \E i \in 1..Len(s) : s[i] # " "
           THEN IF Len(s) > 1 /\ s[2] = " "
                  THEN JoinWords(Tail(s), started)
                  ELSE <<"_">> \o JoinWords(Tail(s), started)
           ELSE JoinWords(Tail(s), started)
    ELSE <<Head(s)>> \o JoinWords(Tail(s), TRUE)

SecureFilename(name) ==
  LET spaced == [i \in 1..Len(name) |->
                   IF name[i] = "/" THEN " " ELSE name[i]]
      joined == JoinWords(spaced, FALSE)
      kept   == SelectSeq(joined, SafeChar)
  IN  StripRight(StripLeft(kept))

\* ------------------------------------------------------- uploaded archives
\* An archive entry: its path in the archive, whether PIL can open its
\* bytes as an image, and the decoded size.  The bytes themselves are
\* identified by the entry they come from.
Entry(n, d, w, h) == [name |-> n, decodes |-> d, width |-> w, height |-> h]

N_a       == <<"a",".","p","n","g">>
N_artwork == <<"c","o","v","e","r","/","a","r","t","w","o","r","k",".","p","n","g">>
N_z       == <<"z",".","j","p","g">>
N_small   == <<"s","m","a","l","l",".","p","n","g">>
N_b       == <<"b",".","p","n","g">>
N_c       == <<"c",".","j","p","e","g">>
N_macosx  == <<"_","_","M","A","C","O","S","X","/","m",".","p","n","g">>
N_D       == <<"D",".","P","N","G">>
N_bad     == <<"b","a","d",".","p","n","g">>
N_notes   == <<"n","o","t","e","s",".","t","x","t">>

E_a       == Entry(N_a, TRUE, 2000, 2000)
E_artwork == Entry(N_artwork, TRUE, 3000, 3000)
E_z       == Entry(N_z, TRUE, 1024, 1024)
E_small   == Entry(N_small, TRUE, 500, 500)
E_b       == Entry(N_b, TRUE, 1023, 1024)
E_c       == Entry(N_c, TRUE, 1024, 1023)
E_macosx  == Entry(N_macosx, TRUE, 2000, 2000)
E_D       == Entry(N_D, TRUE, 1024, 2000)
E_bad     == Entry(N_bad, FALSE, 0, 0)
E_notes   == Entry(N_notes, FALSE, 0, 0)

EntryPool ==
  {E_a, E_artwork, E_z, E_small, E_b, E_c, E_macosx, E_D, E_bad, E_notes}

\* the entries of one archive, in the order they are stored; paths distinct
EntryLists ==
  UNION {{es \in [1..n -> EntryPool] :
            \A i, j \in 1..n : i # j => es[i].name # es[j].name} :
         n \in 0..MaxEntries}

Archive(c, es) == [corrupt |-> c, entries |-> es]

\* a file that zipfile cannot open
CorruptArchive == Archive(TRUE, <<>>)

ScenarioA == Archive(FALSE, <<E_a, E_artwork, E_z>>)

ScenarioB == Archive(FALSE, <<E_small>>)

ReversedPair == Archive(FALSE, <<E_z, E_a>>)

AllArchives == {CorruptArchive} \cup {Archive(FALSE, es) : es \in EntryLists}

SmallArchives == {CorruptArchive, ScenarioA, ScenarioB}

\* ------------------------------------------------------- process_brushset
Ext_png  == <<".","p","n","g">>
Ext_jpg  == <<".","j","p","g">>
Ext_jpeg == <<".","j","p","e","g">>
ArtworkName == <<"a","r","t","w","o","r","k",".","p","n","g">>
MacPrefix == <<"_","_","M","A","C","O","S","X">>
BrandPrefix == <<"A","r","t","y","P","a","c","k","s",".","a","p","p","_">>

ErrNoStamps == "No valid stamp images (>=1024px) were found in the brushset."
ErrCorrupt == "A provided file seems to be corrupted or isn't a valid .brushset."

\* the zip_buffer of a failed call (Python None)
NoBuffer == <<>>

\* ZipFile.namelist()
Namelist(archive) == [i \in 1..Len(archive.entries) |-> archive.entries[i].name]

\* the condition of the list comprehension
IsImageFile(name) ==
  /\ \/ EndsWith(Lower(name), Ext_png)
     \/ EndsWith(Lower(name), Ext_jpg)
     \/ EndsWith(Lower(name), Ext_jpeg)
  /\ ~Contains(Lower(name), ArtworkName)
  /\ ~StartsWith(name, MacPrefix)

\* variant: the candidates are sorted by path before the loop
ImageFilesSorted(archive) ==
  SortNames(SelectSeq(Namelist(archive), IsImageFile))

ImageFiles(archive) == SelectSeq(Namelist(archive), IsImageFile)

\* ZipFile.open(name): the entry stored last under that name
ZipOpen(archive, name) ==
  LET es == archive.entries
      i  == CHOOSE k \in 1..Len(es) :
              /\ es[k].name = name
              /\ \A j \in (k + 1)..Len(es) : es[j].name # name
  IN  es[i]

\* variant: the size test is <= instead of <
SkipImageOffByOne(img) ==
  \/ ~img.decodes
  \/ img.width <= MinSize
  \/ img.height <= MinSize

\* the test that skips an image: PIL cannot open it, or it is too small
SkipImage(img) ==
  \/ ~img.decodes
  \/ img.width < MinSize
  \/ img.height < MinSize

\* name given to the valid image number n
ImageFilenameInZip(base, n) ==
  base \o <<"_">> \o IntToStr(n) \o Ext_png

\* the loop over image_files: valid is valid_images_found, zf the entries
\* written to the output archive so far
RECURSIVE WriteImages(_, _, _, _, _)
WriteImages(archive, files, base, valid, zf) ==
  IF files = <<>> THEN [valid |-> valid, zf |-> zf]
  ELSE
    LET img == ZipOpen(archive, Head(files))
    IN  IF SkipImage(img)
          THEN WriteImages(archive, Tail(files), base, valid, zf)
          ELSE WriteImages(archive, Tail(files), base, valid + 1,
                 Append(zf,
                   [name |-> PathJoin(BrandPrefix \o base,
                                      ImageFilenameInZip(base, valid + 1)),
                    data |-> img.name]))

\* variant: the valid_images_found == 0 test is missing
ProcessBrushsetNoEmptyCheck(filepath, archive) ==
  IF archive.corrupt
    THEN [zip_buffer |-> NoBuffer, error |-> ErrCorrupt]
    ELSE
      LET base == SplitextRoot(Basename(filepath))
          out  == WriteImages(archive, ImageFiles(archive), base, 0, <<>>)
      IN  [zip_buffer |-> out.zf, error |-> None]

\* process_brushset(filepath): the pair (zip_buffer, error)
ProcessBrushset(filepath, archive) ==
  IF archive.corrupt
    THEN [zip_buffer |-> NoBuffer, error |-> ErrCorrupt]
    ELSE
      LET base == SplitextRoot(Basename(filepath))
          out  == WriteImages(archive, ImageFiles(archive), base, 0, <<>>)
      IN  IF out.valid = 0
            THEN [zip_buffer |-> NoBuffer, error |-> ErrNoStamps]
            ELSE [zip_buffer |-> out.zf, error |-> None]

\* ------------------------------------------------------ /convert requests
Req == 1..NumReq

\* licence keys: K1 is a row of the licences table, BAD is not
KnownKeys == {"K1"}

F_x   == <<"x",".","b","r","u","s","h","s","e","t">>
F_my  == <<"m","y"," ","s","e","t",".","b","r","u","s","h","s","e","t">>
F_zip == <<"x",".","z","i","p">>
Ext_brushset == <<".","b","r","u","s","h","s","e","t">>
TempRoot == <<"t","e","m","p">>
Ext_zip == <<".","z","i","p">>

\* what one client sends: the licenseKey form field (None when absent),
\* whether the multipart body has a 'file' part, its filename and content
Input(k, hf, fn, a) ==
  [licenseKey |-> k, hasFile |-> hf, filename |-> fn, archive |-> a]

SmallInputs ==
  {Input(None, TRUE, F_x, ScenarioA),
   Input("BAD", TRUE, F_x, ScenarioA),
   Input("K1", FALSE, <<>>, CorruptArchive),
   Input("K1", TRUE, <<>>, CorruptArchive),
   Input("K1", TRUE, F_zip, ScenarioA)}
  \cup {Input("K1", TRUE, F_x, a) : a \in SmallArchives}

WideInputs ==
  {Input("K1", TRUE, F_x, a) : a \in AllArchives}
  \cup {Input("K1", TRUE, F_my, a) : a \in SmallArchives}

VARIABLES
  req,          \* the inputs of each request
  pc,           \* where each request stands in convert_files
  credits,      \* the licences table: credits left per known key
  gateCalls,    \* number of use_one_credit calls made for each request
  gateOutcome,  \* what the licence step of each request ended in
  tempDir,      \* whether the request's temp/<uuid> directory exists
  pack,         \* the (zip_buffer, error) pair process_brushset returned
  storage,      \* objects of the "conversions" storage bucket
  conversions,  \* rows of the conversions table
  resp,         \* the response sent for each request
  trace         \* the steps each request has performed, in order

vars ==
  <<req, pc, credits, gateCalls, gateOutcome, tempDir, pack, storage,
    conversions, resp, trace>>

NoResp == [status |-> 0, message |-> None, downloadUrl |-> <<>>,
           originalFilename |-> <<>>]

\* jsonify({"message": m}), status
ErrorResp(st, m) ==
  [status |-> st, message |-> m, downloadUrl |-> <<>>,
   originalFilename |-> <<>>]

\* jsonify({"downloadUrl": ..., "originalFilename": ...})
OkResp(url, name) ==
  [status |-> 200, message |-> None, downloadUrl |-> url,
   originalFilename |-> name]

NoPack == [zip_buffer |-> NoBuffer, error |-> None]

InitCommon ==
  /\ pc = [r \in Req |-> "idle"]
  /\ credits = [k \in KnownKeys |-> InitCredits]
  /\ gateCalls = [r \in Req |-> 0]
  /\ gateOutcome = [r \in Req |-> "none"]
  /\ tempDir = [r \in Req |-> FALSE]
  /\ pack = [r \in Req |-> NoPack]
  /\ storage = {}
  /\ conversions = {}
  /\ resp = [r \in Req |-> NoResp]
  /\ trace = [r \in Req |-> <<>>]

Init ==
  /\ req \in [Req -> SmallInputs]
  /\ InitCommon

\* request 1 uploads any archive of the bounded universe, its key having
\* either no credit or all of them; the other requests came without a
\* licence key and have been answered 401
InitPB ==
  /\ \E w \in WideInputs :
       req = [r \in Req |->
                IF r = 1 THEN w ELSE Input(None, TRUE, F_x, ScenarioA)]
  /\ pc = [r \in Req |-> IF r = 1 THEN "idle" ELSE "done"]
  /\ credits \in [KnownKeys -> {0, InitCredits}]
  /\ gateCalls = [r \in Req |-> 0]
  /\ gateOutcome = [r \in Req |-> "none"]
  /\ tempDir = [r \in Req |-> FALSE]
  /\ pack = [r \in Req |-> NoPack]
  /\ storage = {}
  /\ conversions = {}
  /\ resp = [r \in Req |->
              IF r = 1 THEN NoResp ELSE ErrorResp(401, "Missing license key.")]
  /\ trace = [r \in Req |-> <<>>]

\* the request ends: the response is sent and the finally clause has
\* removed the temp directory
Finish(r, response) ==
  /\ resp' = [resp EXCEPT ![r] = response]
  /\ tempDir' = [tempDir EXCEPT ![r] = FALSE]
  /\ pc' = [pc EXCEPT ![r] = "done"]

Step(r, name) == trace' = [trace EXCEPT ![r] = Append(@, name)]

\* a client posts to /convert
Submit(r) ==
  /\ pc[r] = "idle"
  /\ pc' = [pc EXCEPT ![r] = "key"]
  /\ UNCHANGED <<req, credits, gateCalls, gateOutcome, tempDir, pack,
                 storage, conversions, resp, trace>>

\* `not license_key`
MissingKey(k) == k = None \/ k = ""

CheckKey(r) ==
  /\ pc[r] = "key"
  /\ IF MissingKey(req[r].licenseKey)
       THEN Finish(r, ErrorResp(401, "Missing license key."))
       ELSE /\ pc' = [pc EXCEPT ![r] = "gate"]
            /\ UNCHANGED <<resp, tempDir>>
  /\ UNCHANGED <<req, credits, gateCalls, gateOutcome, pack, storage,
                 conversions, trace>>

\* the stored procedure use_one_credit: one atomic check-and-decrement;
\* the row it returns is (ok, message) and the table it leaves is credits
UseOneCredit(table, k) ==
  IF k \in DOMAIN table /\ table[k] > 0
    THEN [ok |-> TRUE, message |-> "Credit used.",
          credits |-> [table EXCEPT ![k] = @ - 1]]
    ELSE [ok |-> FALSE,
          message |-> "Invalid license or no credits remaining.",
          credits |-> table]

GateCalled(r, outcome) ==
  /\ gateCalls' = [gateCalls EXCEPT ![r] = @ + 1]
  /\ gateOutcome' = [gateOutcome EXCEPT ![r] = outcome]
  /\ Step(r, "gate")

\* variant: result[0] is not tested, every answered call lets the
\* request go on
GateGrantedUnchecked(r) ==
  /\ pc[r] = "gate"
  /\ credits' = UseOneCredit(credits, req[r].licenseKey).credits
  /\ GateCalled(r, "granted")
  /\ pc' = [pc EXCEPT ![r] = "file"]
  /\ UNCHANGED <<req, tempDir, pack, storage, conversions, resp>>

\* result[0] is true: the transaction commits and the request goes on
GateGranted(r) ==
  /\ pc[r] = "gate"
  /\ LET result == UseOneCredit(credits, req[r].licenseKey)
     IN  /\ result.ok
         /\ credits' = result.credits
  /\ GateCalled(r, "granted")
  /\ pc' = [pc EXCEPT ![r] = "file"]
  /\ UNCHANGED <<req, tempDir, pack, storage, conversions, resp>>

\* variant: the denial is rolled back but the 403 is not returned
GateDeniedFallsThrough(r) ==
  /\ pc[r] = "gate"
  /\ ~UseOneCredit(credits, req[r].licenseKey).ok
  /\ GateCalled(r, "denied")
  /\ pc' = [pc EXCEPT ![r] = "file"]
  /\ UNCHANGED <<req, credits, tempDir, pack, storage, conversions, resp>>

\* no row or result[0] false: rollback and 403 with the message of the row
GateDenied(r) ==
  /\ pc[r] = "gate"
  /\ LET result == UseOneCredit(credits, req[r].licenseKey)
     IN  /\ ~result.ok
         /\ Finish(r, ErrorResp(403, result.message))
  /\ GateCalled(r, "denied")
  /\ UNCHANGED <<req, credits, pack, storage, conversions>>

\* variant: a failed call is tried again
GateFailureRetry(r) ==
  /\ pc[r] = "gate"
  /\ \E applied \in BOOLEAN :
       credits' = IF applied
                    THEN UseOneCredit(credits, req[r].licenseKey).credits
                    ELSE credits
  /\ GateCalled(r, "failure")
  /\ UNCHANGED <<req, pc, tempDir, pack, storage, conversions, resp>>

\* connect, execute or commit raises: rollback, 500.  When it is the commit
\* that fails, the database may or may not have applied the decrement.
GateFailure(r) ==
  /\ pc[r] = "gate"
  /\ \E applied \in BOOLEAN :
       credits' = IF applied
                    THEN UseOneCredit(credits, req[r].licenseKey).credits
                    ELSE credits
  /\ GateCalled(r, "failure")
  /\ Finish(r, ErrorResp(500,
       "Failed to update credits due to a database error."))
  /\ UNCHANGED <<req, pack, storage, conversions>>

\* the two checks on the file part, then the temp directory is made
CheckFile(r) ==
  /\ pc[r] = "file"
  /\ IF ~req[r].hasFile
       THEN Finish(r, ErrorResp(400, "No file was uploaded."))
       ELSE IF req[r].filename = <<>>
         THEN Finish(r, ErrorResp(400, "No selected file."))
         ELSE /\ tempDir' = [tempDir EXCEPT ![r] = TRUE]
              /\ pc' = [pc EXCEPT ![r] = "process"]
              /\ UNCHANGED resp
  /\ UNCHANGED <<req, credits, gateCalls, gateOutcome, pack, storage,
                 conversions, trace>>

OriginalFilename(r) == SecureFilename(req[r].filename)

\* os.path.join(temp_dir, original_filename); the request number stands
\* for the uuid of the directory
Filepath(r) == PathJoin(PathJoin(TempRoot, IntToStr(r)), OriginalFilename(r))

\* the extension test, file.save and process_brushset
Process(r) ==
  /\ pc[r] = "process"
  /\ IF EndsWith(req[r].filename, Ext_brushset)
       THEN LET res == ProcessBrushset(Filepath(r), req[r].archive)
            IN  /\ pack' = [pack EXCEPT ![r] = res]
                /\ trace' = [trace EXCEPT ![r] = @ \o <<"save", "process">>]
                /\ IF res.error # None
                     THEN Finish(r, ErrorResp(400, res.error))
                     ELSE /\ pc' = [pc EXCEPT ![r] = "upload"]
                          /\ UNCHANGED <<resp, tempDir>>
       ELSE /\ Finish(r, ErrorResp(400,
                 "Invalid file type. Only .brushset files are allowed."))
            /\ UNCHANGED <<pack, trace>>
  /\ UNCHANGED <<req, credits, gateCalls, gateOutcome, storage, conversions>>

\* zip_filename_for_storage; the request number stands for the timestamp
ZipFilenameForStorage(r) ==
  BrandPrefix \o SplitextRoot(OriginalFilename(r)) \o <<"_">>
    \o IntToStr(r) \o Ext_zip

\* get_public_url
PublicUrl(path) == <<"c","o","n","v","e","r","s","i","o","n","s","/">> \o path

ErrCritical == "A critical error occurred while processing the file."

\* the upload to the storage bucket succeeds
UploadOk(r) ==
  /\ pc[r] = "upload"
  /\ storage' = storage \cup
       {[path |-> ZipFilenameForStorage(r), file |-> pack[r].zip_buffer]}
  /\ Step(r, "upload")
  /\ pc' = [pc EXCEPT ![r] = "log"]
  /\ UNCHANGED <<req, credits, gateCalls, gateOutcome, tempDir, pack,
                 conversions, resp>>

\* variant: the exception of the upload is swallowed
UploadFailContinues(r) ==
  /\ pc[r] = "upload"
  /\ Step(r, "upload")
  /\ pc' = [pc EXCEPT ![r] = "log"]
  /\ UNCHANGED <<req, credits, gateCalls, gateOutcome, tempDir, pack,
                 storage, conversions, resp>>

\* the upload raises
UploadFail(r) ==
  /\ pc[r] = "upload"
  /\ Step(r, "upload")
  /\ Finish(r, ErrorResp(500, ErrCritical))
  /\ UNCHANGED <<req, credits, gateCalls, gateOutcome, pack, storage,
                 conversions>>

\* the INSERT into conversions commits and the 200 response is returned
InsertOk(r) ==
  /\ pc[r] = "log"
  /\ conversions' = conversions \cup
       {[license_key |-> req[r].licenseKey,
         original_filename |-> OriginalFilename(r),
         download_url |-> PublicUrl(ZipFilenameForStorage(r))]}
  /\ Step(r, "insert")
  /\ Finish(r, OkResp(PublicUrl(ZipFilenameForStorage(r)), OriginalFilename(r)))
  /\ UNCHANGED <<req, credits, gateCalls, gateOutcome, pack, storage>>

\* the INSERT raises: the except clause of convert_files answers 500
InsertFail(r) ==
  /\ pc[r] = "log"
  /\ Step(r, "insert")
  /\ Finish(r, ErrorResp(500, ErrCritical))
  /\ UNCHANGED <<req, credits, gateCalls, gateOutcome, pack, storage,
                 conversions>>

Next ==
  \E r \in Req :
    \/ Submit(r)
    \/ CheckKey(r)
    \/ GateGranted(r)
    \/ GateDenied(r)
    \/ GateFailure(r)
    \/ CheckFile(r)
    \/ Process(r)
    \/ UploadOk(r)
    \/ UploadFail(r)
    \/ InsertOk(r)
    \/ InsertFail(r)

Spec == Init /\ [][Next]_vars

SpecPB == InitPB /\ [][Next]_vars

TypeOK ==
  /\ pc \in [Req -> {"idle", "key", "gate", "file", "process", "upload",
                     "log", "done"}]
  /\ credits \in [KnownKeys -> 0..InitCredits]
  /\ gateCalls \in [Req -> 0..1]
  /\ gateOutcome \in [Req -> {"none", "granted", "denied", "failure"}]
  /\ tempDir \in [Req -> BOOLEAN]

\* ================================================================ claims
Range(f) == {f[i] : i \in DOMAIN f}

\* process_brushset has returned for request r
Processed(r) == "process" \in Range(trace[r])

\* the base name the output entries are to carry, per uploaded file name
ExpectedBase(fn) ==
  IF fn = F_my THEN <<"m","y","_","s","e","t">> ELSE <<"x">>

\* <base>_<n><ext>
ExpectedName(fn, n, ext) == ExpectedBase(fn) \o <<"_">> \o IntToStr(n) \o ext

\* the rule an entry qualifies by: extension, not the cover artwork, not
\* a macOS resource entry, decodes, and both sides at least 1024
Qualifies(e) ==
  /\ e.decodes
  /\ e.width >= 1024
  /\ e.height >= 1024
  /\ ~StartsWith(e.name, MacPrefix)
  /\ LET lowered == Lower(e.name)
     IN  /\ \E ext \in {Ext_png, Ext_jpg, Ext_jpeg} : EndsWith(lowered, ext)
         /\ ~Contains(lowered, ArtworkName)

QualifyingNames(a) == {e.name : e \in {x \in Range(a.entries) : Qualifies(x)}}

\* the ordinal an output entry carries in its name
OrdinalOf(fn, out) ==
  CHOOSE n \in 0..(MaxEntries + 1) :
    \/ Basename(out.name) = ExpectedName(fn, n, Ext_png)
    \/ n = 0 /\ \A m \in 1..(MaxEntries + 1) :
                  Basename(out.name) # ExpectedName(fn, m, Ext_png)

\* position of the entry called name in the uploaded archive
PositionOf(a, name) == CHOOSE i \in 1..Len(a.entries) : a.entries[i].name = name

\* C1: for a valid archive with at least one qualifying entry, the output
\* archive has exactly one entry per qualifying source entry and nothing
\* else, and the entries are named <base>_1.png .. <base>_N.png, N being
\* the number of qualifying entries.
C1_ExactlyTheQualifying ==
  \A r \in Req :
    LET a   == req[r].archive
        zf  == pack[r].zip_buffer
        N   == Cardinality(QualifyingNames(a))
    IN  (Processed(r) /\ ~a.corrupt /\ N >= 1) =>
          /\ pack[r].error = None
          /\ Len(zf) = N
          /\ {zf[i].data : i \in 1..Len(zf)} = QualifyingNames(a)
          /\ {Basename(zf[i].name) : i \in 1..Len(zf)}
               = {ExpectedName(req[r].filename, n, Ext_png) : n \in 1..N}

\* C1 witness: candidates between two qualifying entries are skipped (one
\* too narrow, one too low), the 1024x1024 image is kept, two entries out
C1_Witness ==
  \E r \in Req :
    /\ Processed(r)
    /\ \E es \in {<<E_a, E_b, E_z>>, <<E_a, E_c, E_z>>} :
         req[r].archive.entries = es
    /\ Len(pack[r].zip_buffer) = 2

C9_ScenarioAKeepsExtension ==
  \A r \in Req :
    LET zf == pack[r].zip_buffer
    IN  (Processed(r) /\ req[r].archive = ScenarioA) =>
          /\ Len(zf) = 2
          /\ zf[1].data = N_a
          /\ Basename(zf[1].name) = ExpectedName(req[r].filename, 1, Ext_png)
          /\ zf[2].data = N_z
          /\ Basename(zf[2].name) = ExpectedName(req[r].filename, 2, Ext_jpg)

\* C4: a request whose archive has no qualifying image never reaches the
\* upload or the conversions insert, and once process_brushset has run it
\* is answered 400 with the "no valid stamp images" message.
C4_EmptyResult ==
  \A r \in Req :
    LET a == req[r].archive
    IN  (~a.corrupt /\ QualifyingNames(a) = {}) =>
          /\ "upload" \notin Range(trace[r])
          /\ "insert" \notin Range(trace[r])
          /\ \A o \in storage : o.path # ZipFilenameForStorage(r)
          /\ \A c \in conversions :
               c.download_url # PublicUrl(ZipFilenameForStorage(r))
          /\ Processed(r) =>
               /\ pc[r] = "done"
               /\ resp[r].status = 400
               /\ resp[r].message = ErrNoStamps

\* C4 witness: candidates of every rejected kind, none qualifying, 400
C4_Witness ==
  \E r \in Req :
    /\ Processed(r)
    /\ req[r].archive.entries = <<E_small, E_bad, E_artwork>>
    /\ resp[r].status = 400

\* C3 (as stated): a request answered 400 has consumed no credit.  The code
\* has no refund operation, so this is: the gate did not grant it a credit.
C3_NoChargeOn400 ==
  \A r \in Req : resp[r].status = 400 => gateOutcome[r] # "granted"

\* C5: when the gate denies the credit the response is 403 and nothing
\* else has happened for the request: no temp directory, no saved file, no
\* processing, no upload, no conversions row.
C5_DeniedStops ==
  \A r \in Req :
    gateOutcome[r] = "denied" =>
      /\ pc[r] = "done"
      /\ resp[r].status = 403
      /\ trace[r] = <<"gate">>
      /\ ~tempDir[r]
      /\ pack[r] = NoPack
      /\ \A o \in storage : o.path # ZipFilenameForStorage(r)
      /\ \A c \in conversions :
           c.download_url # PublicUrl(ZipFilenameForStorage(r))

\* C5 witness: a known key with no credit left is denied
C5_Witness ==
  \E r \in Req :
    /\ gateOutcome[r] = "denied"
    /\ req[r].licenseKey \in KnownKeys
    /\ credits[req[r].licenseKey] = 0
    /\ resp[r].status = 403

\* C6 (as stated): once the upload has succeeded, a finished request is
\* answered 200 with the download URL and the original filename, whether
\* the conversions insert succeeded or not.
C6_LogFailureNotFatal ==
  \A r \in Req :
    (/\ pc[r] = "done"
     /\ "insert" \in Range(trace[r])
     /\ \E o \in storage : o.path = ZipFilenameForStorage(r)) =>
      /\ resp[r].status = 200
      /\ resp[r].downloadUrl = PublicUrl(ZipFilenameForStorage(r))
      /\ resp[r].originalFilename = OriginalFilename(r)

C7_Inv ==
  \A r \in Req :
    /\ gateCalls[r] <= 1
    /\ Cardinality({i \in DOMAIN trace[r] : trace[r][i] = "gate"}) = gateCalls[r]
    /\ pc[r] \in {"file", "process", "upload", "log", "done"} =>
         gateCalls[r] = IF MissingKey(req[r].licenseKey) THEN 0 ELSE 1
    /\ gateOutcome[r] = "failure" =>
         /\ pc[r] = "done"
         /\ resp[r].status = 500

C7_Step ==
  /\ \A k \in KnownKeys : credits'[k] <= credits[k]
  /\ credits' # credits =>
       \E r \in Req :
         /\ gateCalls[r] = 0
         /\ gateCalls'[r] = 1
         /\ credits' = [credits EXCEPT ![req[r].licenseKey] = @ - 1]

\* C7: use_one_credit is called at most once per request, exactly once
\* when the request carries a licence key; a failed call ends the request
\* with 500 and is not repeated; no credit is ever given back and each
\* decrement is the single call of one request.
C7_GateOnce == []C7_Inv /\ [][C7_Step]_vars

\* C7 witness: the gate call of a request failed and the request is over
C7_Witness ==
  \E r \in Req :
    /\ gateOutcome[r] = "failure"
    /\ gateCalls[r] = 1
    /\ pc[r] = "done"
    /\ resp[r].status = 500

\* C8: the requests that passed the licence step with a key never
\* outnumber the credits the key started with, under every interleaving.
C8_NoOverspend ==
  \A k \in KnownKeys :
    Cardinality({r \in Req : req[r].licenseKey = k /\ gateOutcome[r] = "granted"})
      + credits[k] <= InitCredits

\* C8 witness: two requests with the same key, the last credit went to one
\* and the other was denied
C8_Witness ==
  \E r1, r2 \in Req :
    /\ r1 # r2
    /\ req[r1].licenseKey = req[r2].licenseKey
    /\ req[r1].licenseKey \in KnownKeys
    /\ gateOutcome[r1] = "granted"
    /\ gateOutcome[r2] = "denied"
    /\ credits[req[r1].licenseKey] = 0

AllSteps == <<"gate", "save", "process", "upload", "insert">>

C10_Inv ==
  \A r \in Req :
    /\ Len(trace[r]) <= Len(AllSteps)
    /\ trace[r] = SubSeq(AllSteps, 1, Len(trace[r]))
    /\ "upload" \in Range(trace[r]) =>
         /\ gateOutcome[r] = "granted"
         /\ pack[r].error = None
         /\ pack[r].zip_buffer # <<>>
    /\ "insert" \in Range(trace[r]) =>
         \E o \in storage :
           /\ o.path = ZipFilenameForStorage(r)
           /\ o.file = pack[r].zip_buffer
    /\ resp[r].status = 200 =>
         /\ trace[r] = AllSteps
         /\ \E c \in conversions :
              c.download_url = PublicUrl(ZipFilenameForStorage(r))
    /\ resp[r].status # 0 => pc[r] = "done"

C10_Step ==
  \A r \in Req :
    resp[r].status # 0 =>
      /\ trace'[r] = trace[r]
      /\ resp'[r] = resp[r]
      /\ pc'[r] = pc[r]
      /\ {o \in storage' : o.path = ZipFilenameForStorage(r)}
           = {o \in storage : o.path = ZipFilenameForStorage(r)}
      /\ {c \in conversions' : c.download_url = PublicUrl(ZipFilenameForStorage(r))}
           = {c \in conversions : c.download_url = PublicUrl(ZipFilenameForStorage(r))}

\* C10: a request performs its steps in the one order licence check, save
\* and repack, upload, insert, 200 response, none of them twice; the
\* upload needs a granted credit and a non-empty pack, the insert a stored
\* upload, the 200 all of them; after a response nothing more is done.
C10_FixedOrder == []C10_Inv /\ [][C10_Step]_vars

\* C10 witness: a request went through every step and was answered 200
C10_Witness ==
  \E r \in Req :
    /\ resp[r].status = 200
    /\ trace[r] = AllSteps
    /\ pc[r] = "done"

====
